---- MODULE Spec2Model ----
(***************************************************************************)
(* Model of cities-loader (src/src/main.rs): a two-command CLI.            *)
(*   upload: migrate, unzip, stream the CSV, bulk-insert in batches.       *)
(*   bench : 500 sequential nearest-neighbour queries on one connection.   *)
(*                                                                         *)
(* Every .expect()/.unwrap() of the source is a panic: the process stops   *)
(* (pc = "aborted") with the panic message in `panic`.                     *)
(*                                                                         *)
(* f64 values are modelled as integers in hundredths (48.85 is 4885).      *)
(* batch_size is 10000 in the source (main.rs:89); the model is parametric *)
(* in it and is checked with a small value, so "10,000" in a statement     *)
(* reads "batch_size" here.                                                *)
(***************************************************************************)
EXTENDS Integers, Sequences, FiniteSets, TLC

\* ---------------------------------------------------------------- bounds
\* let batch_size = 10000 (main.rs:89), scaled down.
batch_size == 3

\* Longest CSV input (data rows) the reader is given.
MaxRows == 7

\* ------------------------------------------------------ program constants
\* Variant: one iteration short.
IterationsShort == 500 - 1

\* for _ in 0..500 (main.rs:69)
Iterations == 500

\* .limit(500) (main.rs:79)
QueryLimit == 500

\* Some(4326) (main.rs:76, 139)
SRID == 4326

\* rng.gen_range(-90.0..90.0) (main.rs:74), in hundredths
FirstLo == -9000
FirstHi == 9000

\* rng.gen_range(-180.0..180.0) (main.rs:75), in hundredths
SecondLo == -18000
SecondHi == 18000

\* ------------------------------------------------------------ CSV records
\* Text of the numeric CSV cells and the f64 each parses to (hundredths).
F64Text == [ t \in {"48.85", "2.35", "-33.87", "151.21", "1.52"} |->
               CASE t = "48.85"  -> 4885
                 [] t = "2.35"   -> 235
                 [] t = "-33.87" -> -3387
                 [] t = "151.21" -> 15121
                 [] t = "1.52"   -> 152 ]

\* Data rows of ./data/cities.txt, in header order
\* Country, City, Accent City, Region, Latitude, Longitude.
RawRows == { <<"fr", "paris", "Paris", "A8", "48.85", "2.35">>,
             <<"au", "sydney", "Sydney", "02", "-33.87", "151.21">>,
             <<"ad", "andorra", "Andorra", "07", "north", "1.52">> }

\* serde's f64 parse of one cell: Err on non-numeric text.
ParseF64(t) ==
    IF t \in DOMAIN F64Text THEN [ok |-> TRUE, v |-> F64Text[t]]
                            ELSE [ok |-> FALSE, v |-> 0]

\* rdr.deserialize::<CityRecord>(): one row to Result<CityRecord, Error>;
\* fields bind to columns by header name.
Deserialize(raw) ==
    LET lat == ParseF64(raw[5])
        lon == ParseF64(raw[6])
    IN  [ok |-> lat.ok /\ lon.ok,
         rec |-> [country |-> raw[1], city |-> raw[2], accent_city |-> raw[3],
                  region |-> raw[4], latitude |-> lat.v, longitude |-> lon.v]]

\* Point::new(x, y, srid)
PointNew(x, y, srid) == [x |-> x, y |-> y, srid |-> srid]

\* Variant: latitude and longitude passed to Point::new in the wrong order.
FromCityRecordSwapped(cr) ==
    [country |-> cr.country, city |-> cr.city, accent_city |-> cr.accent_city,
     region |-> cr.region,
     location |-> PointNew(cr.latitude, cr.longitude, SRID)]

\* impl From<CityRecord> for NewCity
FromCityRecord(cr) ==
    [country |-> cr.country, city |-> cr.city, accent_city |-> cr.accent_city,
     region |-> cr.region,
     location |-> PointNew(cr.longitude, cr.latitude, SRID)]

\* --------------------------------------------------------------- benchmark
\* Sample f64 values (hundredths) the random generator is observed at.
SampleF64 == {-18000, -9001, -9000, 0, 8999, 9000, 17999, 18000}

\* rng.gen_range(lo..hi): any value of the half-open range
GenRange(lo, hi) == {v \in SampleF64 : lo <= v /\ v < hi}

\* Point::new(gen_range(-90.0..90.0), gen_range(-180.0..180.0), Some(4326))
QueryPoints ==
    {PointNew(a, b, SRID) : a \in GenRange(FirstLo, FirstHi),
                            b \in GenRange(SecondLo, SecondHi)}

NoQuery == [point |-> PointNew(0, 0, 0), limit |-> 0]

\* ------------------------------------------------------------------ state
VARIABLES
    pc,             \* position of the single thread
    command,        \* cli.command
    panic,          \* message of the panic that ended the process, or ""
    acquired,       \* number of c_pool.get() calls that returned a connection
    migration,      \* "none", "done" or "failed"
    archive_opened, \* ./data/cities.txt.zip was opened
    extracted,      \* the archive was extracted
    consumed,       \* rows the csv reader has yielded so far, in order
    exhausted,      \* the csv iterator has returned None
    cities,         \* the Vec<NewCity> buffer
    batch_counter,
    inserts,        \* bulk inserts sent: [values, ok], in order
    table,          \* rows persisted in the cities table, in order
    stdout,         \* lines printed
    i,              \* completed benchmark iterations
    queries,        \* number of queries sent
    last_query      \* the last query sent

vars == <<pc, command, panic, acquired, migration, archive_opened, extracted,
          consumed, exhausted, cities, batch_counter, inserts, table, stdout,
          i, queries, last_query>>

uploadVars == <<migration, archive_opened, extracted, consumed, exhausted,
                cities, batch_counter, inserts, table>>
benchVars == <<i, queries, last_query>>

Commands == {"Upload", "Bench"}

Init ==
    /\ pc = "main"
    /\ command = "none"
    /\ panic = ""
    /\ acquired = 0
    /\ migration = "none"
    /\ archive_opened = FALSE
    /\ extracted = FALSE
    /\ consumed = <<>>
    /\ exhausted = FALSE
    /\ cities = <<>>
    /\ batch_counter = 0
    /\ inserts = <<>>
    /\ table = <<>>
    /\ stdout = <<>>
    /\ i = 0
    /\ queries = 0
    /\ last_query = NoQuery

\* Variant: the Result is dropped and the program carries on.
ExpectIgnored(ok, next) == next

\* .expect(msg) / .unwrap() on a Result: continue at `next` or panic.
Expect(ok, next) == IF ok THEN next ELSE "aborted"
Message(at, msg) == IF at = "aborted" THEN msg ELSE ""

\* ------------------------------------------------------------------- main
\* Variant: both commands run the upload.
DispatchUploadOnly(cmd) == "insert_data"

\* match cli.command { Upload => insert_data, Bench => bench_get }
Dispatch(cmd) == IF cmd = "Upload" THEN "insert_data" ELSE "bench_get"

\* main: Cli::parse, init_connection_pool, dispatch on the command.
Main ==
    /\ pc = "main"
    /\ \E cmd \in Commands, ok \in BOOLEAN :
         /\ command' = cmd
         /\ pc' = Expect(ok, Dispatch(cmd))
         /\ panic' = Message(pc', "can't create connection pool!")
    /\ UNCHANGED <<acquired, stdout>>
    /\ UNCHANGED uploadVars
    /\ UNCHANGED benchVars

\* ----------------------------------------------------------------- upload
\* let mut conn = c_pool.get().expect("can't get connection")
GetConnection ==
    /\ pc = "insert_data"
    /\ \E ok \in BOOLEAN :
         /\ acquired' = IF ok THEN acquired + 1 ELSE acquired
         /\ pc' = Expect(ok, "run_migration")
         /\ panic' = Message(pc', "can't get connection")
    /\ UNCHANGED <<command, stdout>>
    /\ UNCHANGED uploadVars
    /\ UNCHANGED benchVars

\* run_migration(&mut conn)
RunMigration ==
    /\ pc = "run_migration"
    /\ \E ok \in BOOLEAN :
         /\ migration' = IF ok THEN "done" ELSE "failed"
         /\ pc' = Expect(ok, "open_archive")
         /\ panic' = Message(pc', "migration failure")
    /\ UNCHANGED <<command, acquired, stdout, archive_opened, extracted,
                   consumed, exhausted, cities, batch_counter, inserts,
                   table>>
    /\ UNCHANGED benchVars

\* File::open("./data/cities.txt.zip") and zip::ZipArchive::new(reader)
OpenArchive ==
    /\ pc = "open_archive"
    /\ \E ok \in BOOLEAN :
         /\ archive_opened' = ok
         /\ pc' = Expect(ok, "extract")
         /\ panic' = Message(pc', "can't open cities file")
    /\ UNCHANGED <<command, acquired, stdout, migration, extracted, consumed,
                   exhausted, cities, batch_counter, inserts, table>>
    /\ UNCHANGED benchVars

\* zip_reader.extract(data_path).unwrap(); csv::Reader over ./data/cities.txt;
\* cities = Vec::with_capacity(batch_size); batch_counter = 0
Extract ==
    /\ pc = "extract"
    /\ \E ok \in BOOLEAN :
         /\ extracted' = ok
         /\ pc' = Expect(ok, "loop")
         /\ panic' = Message(pc', "unwrap on Err")
    /\ cities' = <<>>
    /\ batch_counter' = 0
    /\ UNCHANGED <<command, acquired, stdout, migration, archive_opened,
                   consumed, exhausted, inserts, table>>
    /\ UNCHANGED benchVars

\* Variant: a row that fails to parse is skipped.
UnwrapRowSkip(ok, next) == next

\* result.unwrap() (main.rs:101): the record, or a panic.
UnwrapRow(ok, next) == IF ok THEN next ELSE "aborted"

\* Variant: off-by-one length test.
IsFullLate(v) == Len(v) = batch_size + 1

\* cities.len() == batch_size
IsFull(v) == Len(v) = batch_size

\* One turn of `for result in rdr.deserialize()`: the iterator ends, or it
\* yields a row, result.unwrap() is mapped and pushed, and the length test
\* cities.len() == batch_size picks the branch.
NextRow ==
    /\ pc = "loop"
    /\ \/ /\ pc' = "after_loop"
          /\ exhausted' = TRUE
          /\ UNCHANGED <<consumed, cities, panic>>
       \/ /\ Len(consumed) < MaxRows
          /\ \E raw \in RawRows :
               LET result == Deserialize(raw) IN
               /\ consumed' = Append(consumed, raw)
               /\ cities' = IF result.ok
                              THEN Append(cities, FromCityRecord(result.rec))
                              ELSE cities
               /\ pc' = UnwrapRow(result.ok,
                                  IF IsFull(cities') THEN "print_full"
                                                     ELSE "loop")
               /\ panic' = IF pc' = "aborted" THEN "unwrap on Err" ELSE ""
          /\ UNCHANGED exhausted
    /\ UNCHANGED <<command, acquired, stdout, migration, archive_opened,
                   extracted, batch_counter, inserts, table>>
    /\ UNCHANGED benchVars

\* println!("inserting {} batch", batch_counter) of the full-batch branch
ProgressLine(n) == [text |-> "inserting batch", n |-> n]

PrintFull ==
    /\ pc = "print_full"
    /\ stdout' = Append(stdout, ProgressLine(batch_counter))
    /\ pc' = "insert_full"
    /\ UNCHANGED <<command, panic, acquired>>
    /\ UNCHANGED uploadVars
    /\ UNCHANGED benchVars

\* diesel::insert_into(cities::table).values(&cities).execute(&mut conn):
\* one statement, committed as a whole or not at all.
Execute(tbl, values, ok) == IF ok THEN tbl \o values ELSE tbl

\* Variant: the buffer is not cleared after a full-batch insert.
ClearNothing(v) == v

\* cities.clear()
Clear(v) == <<>>

\* The full-batch insert, then cities.clear() and batch_counter += 1.
InsertFull ==
    /\ pc = "insert_full"
    /\ \E ok \in BOOLEAN :
         /\ inserts' = Append(inserts, [values |-> cities, ok |-> ok])
         /\ table' = Execute(table, cities, ok)
         /\ pc' = Expect(ok, "loop")
         /\ panic' = Message(pc', "can't insert cities")
         /\ cities' = IF ok THEN Clear(cities) ELSE cities
         /\ batch_counter' = IF ok THEN batch_counter + 1 ELSE batch_counter
    /\ UNCHANGED <<command, acquired, stdout, migration, archive_opened,
                   extracted, consumed, exhausted>>
    /\ UNCHANGED benchVars

\* Variant: the remainder is never inserted.
IsEmptyAlways(v) == TRUE

\* cities.is_empty()
IsEmpty(v) == Len(v) = 0

\* if !cities.is_empty() { batch_counter += 1; println!(...) ... }
AfterLoop ==
    /\ pc = "after_loop"
    /\ IF ~IsEmpty(cities)
         THEN /\ batch_counter' = batch_counter + 1
              /\ stdout' = Append(stdout, ProgressLine(batch_counter'))
              /\ pc' = "insert_rest"
         ELSE /\ pc' = "done"
              /\ UNCHANGED <<batch_counter, stdout>>
    /\ UNCHANGED <<command, panic, acquired, migration, archive_opened,
                   extracted, consumed, exhausted, cities, inserts, table>>
    /\ UNCHANGED benchVars

\* The insert of the remainder, after which insert_data returns.
InsertRest ==
    /\ pc = "insert_rest"
    /\ \E ok \in BOOLEAN :
         /\ inserts' = Append(inserts, [values |-> cities, ok |-> ok])
         /\ table' = Execute(table, cities, ok)
         /\ pc' = Expect(ok, "done")
         /\ panic' = Message(pc', "can't insert cities")
    /\ UNCHANGED <<command, acquired, stdout, migration, archive_opened,
                   extracted, consumed, exhausted, cities, batch_counter>>
    /\ UNCHANGED benchVars

\* ------------------------------------------------------------------ bench
\* let mut conn = c_pool.get().unwrap(); let start = SystemTime::now()
BenchGetConnection ==
    /\ pc = "bench_get"
    /\ \E ok \in BOOLEAN :
         /\ acquired' = IF ok THEN acquired + 1 ELSE acquired
         /\ pc' = Expect(ok, "bench_loop")
         /\ panic' = Message(pc', "unwrap on Err")
    /\ i' = 0
    /\ UNCHANGED <<command, stdout, queries, last_query>>
    /\ UNCHANGED uploadVars

\* One iteration of `for _ in 0..500`: build the point, execute the query.
BenchQuery ==
    /\ pc = "bench_loop"
    /\ i < Iterations
    /\ \E p \in QueryPoints, ok \in BOOLEAN :
         /\ last_query' = [point |-> p, limit |-> QueryLimit]
         /\ queries' = queries + 1
         /\ i' = IF ok THEN i + 1 ELSE i
         /\ pc' = Expect(ok, "bench_loop")
         /\ panic' = Message(pc', "nothing found")
    /\ UNCHANGED <<command, acquired, stdout>>
    /\ UNCHANGED uploadVars

\* println!("elapsed {:?}", start.elapsed())
BenchDone ==
    /\ pc = "bench_loop"
    /\ i = Iterations
    /\ stdout' = Append(stdout, [text |-> "elapsed", n |-> 0])
    /\ pc' = "done"
    /\ UNCHANGED <<command, panic, acquired, i, queries, last_query>>
    /\ UNCHANGED uploadVars

Next ==
    \/ Main
    \/ GetConnection
    \/ RunMigration
    \/ OpenArchive
    \/ Extract
    \/ NextRow
    \/ PrintFull
    \/ InsertFull
    \/ AfterLoop
    \/ InsertRest
    \/ BenchGetConnection
    \/ BenchQuery
    \/ BenchDone

Spec == Init /\ [][Next]_vars

\* ============================================================== properties
RECURSIVE Flatten(_)
\* The rows of a sequence of inserts, in the order sent.
Flatten(ins) ==
    IF ins = <<>> THEN <<>> ELSE ins[1].values \o Flatten(Tail(ins))

\* The row the specification requires for the input row raw.
Image(raw) ==
    [country |-> raw[1], city |-> raw[2], accent_city |-> raw[3],
     region |-> raw[4],
     location |-> [x |-> F64Text[raw[6]], y |-> F64Text[raw[5]], srid |-> 4326]]

WellFormed(raw) == raw[5] \in DOMAIN F64Text /\ raw[6] \in DOMAIN F64Text

\* The images of the first n rows read.
ImagePrefix(n) == [k \in 1..n |-> Image(consumed[k])]

CeilDiv(a, b) == (a + b - 1) \div b

InLoop == pc \in {"loop", "print_full", "insert_full", "after_loop", "insert_rest"}

\* C1: an upload that ends without error has persisted exactly as many rows
\* as the input has, and the sizes of the inserts issued sum to that number.
C1_AllRowsPersisted ==
    (command = "Upload" /\ pc = "done") =>
        /\ \A k \in 1..Len(consumed) : WellFormed(consumed[k])
        /\ Len(table) = Len(consumed)
        /\ Len(Flatten(inserts)) = Len(consumed)

\* C1 witness: 2 * batch_size + 1 rows persisted in three batches.
C1_Witness ==
    /\ command = "Upload" /\ pc = "done"
    /\ Len(consumed) = 2 * batch_size + 1
    /\ Len(inserts) = 3
    /\ Len(table) = 2 * batch_size + 1

\* C2: N rows give ceil(N / batch_size) inserts; all but the last are full,
\* a partial one has 1..batch_size-1 rows, is the last and is sent only after
\* the input is exhausted; no rows, no insert and a successful end.
C2_InsertCount ==
    command = "Upload" =>
        /\ \A k \in 1..Len(inserts) :
             /\ Len(inserts[k].values) \in 1..batch_size
             /\ k < Len(inserts) => Len(inserts[k].values) = batch_size
             /\ Len(inserts[k].values) < batch_size =>
                    /\ k = Len(inserts)
                    /\ exhausted
                    /\ Len(inserts[k].values) = Len(consumed) % batch_size
        /\ pc = "done" => Len(inserts) = CeilDiv(Len(consumed), batch_size)
        /\ (exhausted /\ consumed = <<>>) =>
               /\ inserts = <<>>
               /\ panic = ""
               /\ pc \in {"after_loop", "done"}

\* C2 witness: an exact multiple of batch_size ends with full batches only.
C2_Witness ==
    /\ command = "Upload" /\ pc = "done"
    /\ Len(consumed) = 2 * batch_size
    /\ Len(inserts) = 2
    /\ \A k \in 1..Len(inserts) : Len(inserts[k].values) = batch_size

\* C3: a row that fails to parse is the last row read; the process is
\* aborted, every insert issued is a full batch of rows before it, and the
\* partially filled buffer is never inserted.
C3_ParseFailureFatal ==
    \A k \in 1..Len(consumed) :
        ~WellFormed(consumed[k]) =>
            /\ k = Len(consumed)
            /\ pc = "aborted"
            /\ panic = "unwrap on Err"
            /\ Len(inserts) = (k - 1) \div batch_size
            /\ \A j \in 1..Len(inserts) : Len(inserts[j].values) = batch_size
            /\ Flatten(inserts) \o cities = ImagePrefix(k - 1)
            /\ table = Flatten(inserts)

\* C3 witness: the failure strikes with one batch inserted and one row buffered.
C3_Witness ==
    /\ pc = "aborted"
    /\ Len(consumed) = batch_size + 2
    /\ ~WellFormed(consumed[Len(consumed)])
    /\ Len(inserts) = 1
    /\ Len(cities) = 1

\* C4: a failed insert is the last insert; the process is aborted, no row is
\* read after it, and the table holds exactly the earlier batches, all full.
C4_InsertFailureFatal ==
    \A k \in 1..Len(inserts) :
        ~inserts[k].ok =>
            /\ k = Len(inserts)
            /\ pc = "aborted"
            /\ panic = "can't insert cities"
            /\ \A j \in 1..(k - 1) :
                 inserts[j].ok /\ Len(inserts[j].values) = batch_size
            /\ table = Flatten(SubSeq(inserts, 1, k - 1))
            /\ Len(table) = batch_size * (k - 1)
            /\ Len(consumed) = Len(table) + Len(inserts[k].values)

\* C4 witness: the second insert fails after a first successful full batch.
C4_Witness ==
    /\ pc = "aborted"
    /\ Len(inserts) = 2
    /\ inserts[1].ok /\ ~inserts[2].ok
    /\ Len(table) = batch_size

\* C5: one progress line per insert, printed just before the insert is sent,
\* and the line of the k-th insert carries the number k.
C5_ProgressNumbered ==
    command = "Upload" =>
        /\ Len(stdout) \in {Len(inserts), Len(inserts) + 1}
        /\ Len(stdout) = Len(inserts) + 1 => pc \in {"insert_full", "insert_rest"}
        /\ pc \in {"insert_full", "insert_rest"} => Len(stdout) = Len(inserts) + 1
        /\ \A k \in 1..Len(stdout) : stdout[k].n = k

\* C6: the benchmark takes one connection once; it is done, with the elapsed
\* line printed, only after exactly 500 successful queries; the first query
\* error aborts it with no further query and no elapsed line.
C6_BenchStateMachine ==
    command = "Bench" =>
        /\ pc \in {"main", "bench_get", "bench_loop", "done", "aborted"}
        /\ acquired <= 1
        /\ queries > 0 => acquired = 1
        /\ queries \in {i, i + 1}
        /\ queries = i + 1 =>
               pc = "aborted" /\ panic = "nothing found" /\ stdout = <<>>
        /\ pc = "done" => i = 500 /\ queries = 500 /\ panic = ""
        /\ stdout # <<>> =>
               /\ pc = "done"
               /\ stdout = <<[text |-> "elapsed", n |-> 0]>>
        /\ pc = "done" => stdout # <<>>
        /\ pc = "bench_loop" => i <= 500 /\ acquired = 1

\* C6 witness: the benchmark is done after 500 queries.
C6_Witness ==
    /\ command = "Bench" /\ pc = "done"
    /\ queries = 500
    /\ Len(stdout) = 1

\* C7: archive, extraction, parsing and inserts happen only after the
\* migration succeeded; a failed migration ends the process with none of
\* them; the bench command never runs the migration.
C7_MigrationFirst ==
    /\ ( \/ pc \in {"open_archive", "extract"} \/ InLoop
         \/ archive_opened \/ extracted \/ exhausted
         \/ consumed # <<>> \/ inserts # <<>> \/ table # <<>> )
           => migration = "done"
    /\ migration = "failed" => pc = "aborted" /\ panic = "migration failure"
    /\ migration # "none" => command = "Upload"
    /\ command = "Bench" => pc \notin {"insert_data", "run_migration"}

\* C7 witness: rows are inserted after a successful migration.
C7_Witness ==
    /\ command = "Upload"
    /\ migration = "done"
    /\ archive_opened /\ extracted
    /\ inserts # <<>>

\* C8: the j-th row of the k-th insert, and every persisted row, is the image
\* of its input row: strings copied, x = longitude, y = latitude, SRID 4326.
C8_RowMapping ==
    /\ \A k \in 1..Len(inserts) :
         \A j \in 1..Len(inserts[k].values) :
            /\ batch_size * (k - 1) + j <= Len(consumed)
            /\ inserts[k].values[j] = Image(consumed[batch_size * (k - 1) + j])
    /\ \A k \in 1..Len(table) :
         /\ k <= Len(consumed)
         /\ table[k] = Image(consumed[k])
         /\ table[k].location.srid = 4326

\* C8 witness: Paris (latitude 48.85, longitude 2.35) is stored as x = 2.35,
\* y = 48.85.
C8_Witness ==
    /\ table # <<>>
    /\ consumed[1][5] = "48.85" /\ consumed[1][6] = "2.35"
    /\ table[1].location = [x |-> 235, y |-> 4885, srid |-> 4326]

\* C9: every query point has x in [-180, 180) and y in [-90, 90), SRID 4326,
\* and the query is limited to 500 results.
C9_QueryPointRanges ==
    queries > 0 =>
        /\ -18000 <= last_query.point.x /\ last_query.point.x < 18000
        /\ -9000 <= last_query.point.y /\ last_query.point.y < 9000
        /\ last_query.point.srid = 4326
        /\ last_query.limit = 500

\* C10: in the upload loop the batches inserted followed by the buffer are
\* the images of the rows read, in order; the buffer never exceeds
\* batch_size, is below it whenever a row is read, and is empty right after
\* a full-batch insert; at a successful end the table is the images of all
\* rows read, each once.
C10_LoopInvariant ==
    /\ Len(cities) <= batch_size
    /\ InLoop =>
         /\ \A k \in 1..Len(consumed) : WellFormed(consumed[k])
         /\ \A k \in 1..Len(inserts) : inserts[k].ok
         /\ table = Flatten(inserts)
         /\ Flatten(inserts) \o cities = ImagePrefix(Len(consumed))
    /\ pc = "loop" =>
         /\ Len(cities) < batch_size
         /\ Len(cities) = Len(consumed) % batch_size
         /\ Len(inserts) = Len(consumed) \div batch_size
    /\ (command = "Upload" /\ pc = "done") =>
         table = ImagePrefix(Len(consumed))

\* C10 witness: a row is buffered after a full batch was inserted and cleared.
C10_Witness ==
    /\ pc = "loop"
    /\ Len(inserts) = 1
    /\ Len(cities) = 1
    /\ Len(consumed) = batch_size + 1

====
